---- MODULE Spec2Model ----
(***************************************************************************)
(* A model of discord_pet_tracker.py: the embed parser, the duplicate      *)
(* check, the capped store pet_servers guarded by pets_lock, the JSON      *)
(* persistence file and the Flask query endpoints.                         *)
(*                                                                         *)
(* Python values are tagged records (None, str, float, bool, list); a str  *)
(* is a sequence of one-character strings, so that the regular             *)
(* expressions and the str methods of the parser can be computed.          *)
(***************************************************************************)
EXTENDS Integers, Sequences, FiniteSets, TLC

(***************************************************************************)
(* Python values                                                           *)
(***************************************************************************)
None == [t |-> "none"]

Str(s) == [t |-> "str", s |-> s]

Num(n) == [t |-> "num", n |-> n]

Bool(b) == [t |-> "bool", b |-> b]

List(xs) == [t |-> "list", xs |-> xs]

\* Python truthiness, as used by "if x:" and "not x".
Truthy(v) ==
    CASE v.t = "none" -> FALSE
      [] v.t = "str"  -> v.s # <<>>
      [] v.t = "num"  -> v.n # 0
      [] v.t = "bool" -> v.b
      [] v.t = "list" -> v.xs # <<>>
      [] OTHER        -> TRUE

(***************************************************************************)
(* str methods                                                             *)
(***************************************************************************)
UpperChars == <<"A","B","C","D","E","F","G","H","I","J","K","L","M",
                "N","O","P","Q","R","S","T","U","V","W","X","Y","Z">>

LowerChars == <<"a","b","c","d","e","f","g","h","i","j","k","l","m",
                "n","o","p","q","r","s","t","u","v","w","x","y","z">>

DigitChars == <<"0","1","2","3","4","5","6","7","8","9">>

Range(f) == {f[i] : i \in DOMAIN f}

SpaceSet == {" ", "\n", "\t"}

DigitSet == Range(DigitChars)

UpperSet == Range(UpperChars)

\* \w of the re module
WordSet == Range(UpperChars) \cup Range(LowerChars) \cup Range(DigitChars) \cup {"_"}

IsSpace(c) == c \in SpaceSet

IsDigit(c) == c \in DigitSet

IsWord(c) == c \in WordSet

LowerChar(c) ==
    IF c \in UpperSet
    THEN LowerChars[CHOOSE i \in DOMAIN UpperChars : UpperChars[i] = c]
    ELSE c

\* str.lower()
Lower(s) == [i \in DOMAIN s |-> LowerChar(s[i])]

\* str.strip()
Strip(s) ==
    LET keep == {i \in DOMAIN s : ~IsSpace(s[i])}
    IN  IF keep = {} THEN <<>>
        ELSE LET lo == CHOOSE i \in keep : \A j \in keep : i <= j
                 hi == CHOOSE i \in keep : \A j \in keep : j <= i
             IN  SubSeq(s, lo, hi)

\* str.replace(" ", "")
RECURSIVE RemoveSpaces(_)
RemoveSpaces(s) ==
    IF s = <<>> THEN <<>>
    ELSE IF Head(s) = " " THEN RemoveSpaces(Tail(s))
         ELSE <<Head(s)>> \o RemoveSpaces(Tail(s))

\* sub in s
Contains(sub, s) ==
    \E i \in 1..(Len(s) - Len(sub) + 1) : SubSeq(s, i, i + Len(sub) - 1) = sub

\* s.startswith(p)
StartsWith(s, p) == Len(s) >= Len(p) /\ SubSeq(s, 1, Len(p)) = p

\* str(n) for n >= 0
RECURSIVE DecimalOf(_)
DecimalOf(n) ==
    IF n < 10 THEN <<DigitChars[n + 1]>>
    ELSE DecimalOf(n \div 10) \o <<DigitChars[(n % 10) + 1]>>

(***************************************************************************)
(* The regular expressions of parse_pet_embed, as re.search computes       *)
(* them: the leftmost start, each quantifier greedy, backtracking to the   *)
(* first assignment that lets the rest of the pattern match.  Each         *)
(* operator returns [ok |-> FALSE] or the groups the code reads.           *)
(***************************************************************************)
NoMatch == [ok |-> FALSE]

Min(S) == CHOOSE x \in S : \A y \in S : x <= y

Max(S) == CHOOSE x \in S : \A y \in S : y <= x

\* The end m of the longest run s[from..m] of characters of the set chars,
\* from-1 if there is none.
RunOf(s, from, chars) ==
    LET stops == {x \in from..Len(s) : s[x] \notin chars}
    IN  IF stops = {} THEN Len(s) ELSE Min(stops) - 1

\* The end m of the longest run s[from..m] of characters outside the set
\* ends, from-1 if there is none.
RunUntil(s, from, ends) ==
    LET stops == {x \in from..Len(s) : s[x] \in ends}
    IN  IF stops = {} THEN Len(s) ELSE Min(stops) - 1

\* [^\w\s]
IsSymbol(c) == ~IsWord(c) /\ ~IsSpace(c)

\* The pattern ([^\w\s]+)\s*(.+) with group 1 = s[i..j] and \s* = s[j+1..k]:
\* what is left must hold one character for ".+", which takes no newline.
EmojiValid(s, i, j, k) ==
    /\ i <= j /\ j <= k /\ k + 1 <= Len(s)
    /\ \A x \in i..j : IsSymbol(s[x])
    /\ \A x \in (j + 1)..k : IsSpace(s[x])
    /\ s[k + 1] # "\n"

EmojiGroups(s, i, j, k) ==
    [ok |-> TRUE, g1 |-> SubSeq(s, i, j), g2 |-> SubSeq(s, k + 1, RunUntil(s, k + 1, {"\n"}))]

EmojiFromJ(s, i, j) ==
    EmojiGroups(s, i, j, Max({k \in j..Len(s) : EmojiValid(s, i, j, k)}))

EmojiFrom(s, i) ==
    EmojiFromJ(s, i, Max({j \in i..Len(s) : \E k \in j..Len(s) : EmojiValid(s, i, j, k)}))

\* re.search(r'([^\w\s]+)\s*(.+)', s)
EmojiMatch(s) ==
    LET Starts == {i \in 1..Len(s) :
                      \E j \in i..Len(s) : \E k \in j..Len(s) : EmojiValid(s, i, j, k)}
    IN  IF Starts = {} THEN NoMatch ELSE EmojiFrom(s, Min(Starts))

\* The backtick character (the lexer of TLA+ reserves the character itself).
BackTick == "<backtick>"

Backticks == <<BackTick, BackTick, BackTick>>

NotNewlineOrTick(c) == c # "\n" /\ c # BackTick

\* The code-block pattern from position i, with (?:lua)? taking a characters
\* and \s* ending at k: the group needs one character after k.
CodeValid(s, i, a, k) ==
    /\ i + 2 <= Len(s) /\ SubSeq(s, i, i + 2) = Backticks
    /\ a = 3 => (i + 5 <= Len(s) /\ SubSeq(s, i + 3, i + 5) = <<"l", "u", "a">>)
    /\ i + 2 + a <= k /\ k + 1 <= Len(s)
    /\ \A x \in (i + 3 + a)..k : IsSpace(s[x])
    /\ NotNewlineOrTick(s[k + 1])

CodeGroups(s, k) ==
    [ok |-> TRUE, g1 |-> SubSeq(s, k + 1, RunUntil(s, k + 1, {"\n", BackTick}))]

CodeFromA(s, i, a) ==
    CodeGroups(s, Max({k \in i..Len(s) : CodeValid(s, i, a, k)}))

CodeFrom(s, i) ==
    CodeFromA(s, i, Max({a \in {0, 3} : \E k \in i..Len(s) : CodeValid(s, i, a, k)}))

\* re.search of the code-block pattern: three backticks, (?:lua)?, \s*, then
\* the group: one or more characters other than newline and backtick
CodeMatch(s) ==
    LET Starts == {i \in 1..Len(s) :
                      \E a \in {0, 3} : \E k \in i..Len(s) : CodeValid(s, i, a, k)}
    IN  IF Starts = {} THEN NoMatch ELSE CodeFrom(s, Min(Starts))

TeleportCall == <<"T","e","l","e","p","o","r","t","T","o","P","l","a","c","e",
                  "I","n","s","t","a","n","c","e","(">>

\* ["\']
Quotes == {"\"", "'"}

IsQuote(c) == c \in Quotes

\* The teleport pattern from position i.  None of its quantifiers has a
\* second assignment that could match (each run is ended by a character
\* outside its class), so the greedy assignment decides.
TeleportQuoted(s, from, d, w, q) ==
    IF q >= w + 2 /\ q + 1 <= Len(s)
    THEN [ok |-> TRUE, g1 |-> SubSeq(s, from, d), g2 |-> SubSeq(s, w + 2, q)]
    ELSE NoMatch

TeleportSpaces(s, from, d, w) ==
    IF w + 1 <= Len(s) /\ IsQuote(s[w + 1])
    THEN TeleportQuoted(s, from, d, w, RunUntil(s, w + 2, Quotes))
    ELSE NoMatch

TeleportDigits(s, from, d) ==
    IF d >= from /\ d + 1 <= Len(s) /\ s[d + 1] = ","
    THEN TeleportSpaces(s, from, d, RunOf(s, d + 2, SpaceSet))
    ELSE NoMatch

TeleportAt(s, i) ==
    IF i + Len(TeleportCall) - 1 <= Len(s)
       /\ SubSeq(s, i, i + Len(TeleportCall) - 1) = TeleportCall
    THEN TeleportDigits(s, i + Len(TeleportCall),
                        RunOf(s, i + Len(TeleportCall), DigitSet))
    ELSE NoMatch

\* re.search(r'TeleportToPlaceInstance\((\d+),\s*["\']([^"\']+)["\']', s)
TeleportMatch(s) ==
    LET Starts == {i \in 1..Len(s) : TeleportAt(s, i).ok}
    IN  IF Starts = {} THEN NoMatch ELSE TeleportAt(s, Min(Starts))

LinkUrl(s, b, u) ==
    IF u >= b + 3 /\ u + 1 <= Len(s)
    THEN [ok |-> TRUE, g2 |-> SubSeq(s, b + 3, u)]
    ELSE NoMatch

LinkLabel(s, i, b) ==
    IF b >= i + 1 /\ b + 2 <= Len(s) /\ s[b + 1] = "]" /\ s[b + 2] = "("
    THEN LinkUrl(s, b, RunUntil(s, b + 3, {")"}))
    ELSE NoMatch

LinkAt(s, i) ==
    IF s[i] = "[" THEN LinkLabel(s, i, RunUntil(s, i + 1, {"]"})) ELSE NoMatch

\* re.search(r'\[([^\]]+)\]\(([^)]+)\)', s)
LinkMatch(s) ==
    LET Starts == {i \in 1..Len(s) : LinkAt(s, i).ok}
    IN  IF Starts = {} THEN NoMatch ELSE LinkAt(s, Min(Starts))

(***************************************************************************)
(* parse_pet_embed                                                         *)
(*                                                                         *)
(* A pet is the dict the parser builds: a function from its keys to Python *)
(* values.  An embed is [title, description, fields], a field is           *)
(* [name, value, inline]; a message is [channel, id, created_at, embeds].  *)
(***************************************************************************)
Dict(d) == [t |-> "dict", d |-> d]

\* x is None (a pet dict has no tag)
IsNone(v) == "t" \in DOMAIN v /\ v.t = "none"

\* The string the code scans: "x.strip() if x else ''" (name also lowered).
FieldName(field) ==
    IF Truthy(field.name) THEN Strip(Lower(field.name.s)) ELSE <<>>

FieldValue(field) ==
    IF Truthy(field.value) THEN Strip(field.value.s) ELSE <<>>

InitialPetData ==
    [name |-> None, mutation |-> None, dps |-> None, money_per_sec |-> None,
     tier |-> None, generation |-> None, traits |-> None, jobId |-> None,
     placeId |-> None, players |-> None, join_link |-> None,
     teleport_script |-> None, emoji |-> None, found_at |-> None,
     processed_at |-> None, message_id |-> None, raw_fields |-> List(<<>>)]

RawField(field) ==
    Dict([name |-> field.name, value |-> field.value, inline |-> Bool(field.inline)])

\* A script whose second argument always becomes the jobId.
TeleportFieldsAlways(pd, m) ==
    [pd EXCEPT !.placeId = Str(m.g1), !.jobId = Str(m.g2)]

\* The body of "if m:" for a match m of the teleport pattern.
TeleportFields(pd, m) ==
    LET p2 == [pd EXCEPT !.placeId = Str(m.g1)]
    IN  IF ~Truthy(p2.jobId)
        THEN [p2 EXCEPT !.jobId = Str(m.g2)]
        ELSE p2

\* One iteration of "for field in embed.fields": the if/elif chain.
ParseField(pd0, field) ==
    LET fn == FieldName(field)
        fv == FieldValue(field)
        pd == [pd0 EXCEPT !.raw_fields = List(@.xs \o <<RawField(field)>>)]
    IN  IF Contains(<<"n","a","m","e">>, fn) /\ ~Contains(<<"d","i","s","p","l","a","y">>, fn) THEN
            LET m == EmojiMatch(fv)
            IN  IF m.ok
                THEN [pd EXCEPT !.emoji = Str(Strip(m.g1)), !.name = Str(Strip(m.g2))]
                ELSE [pd EXCEPT !.name = Str(fv)]
        ELSE IF Contains(<<"m","u","t","a","t","i","o","n">>, fn) THEN
            [pd EXCEPT !.mutation = Str(fv)]
        ELSE IF Contains(<<"g","e","n","e","r","a","t","i","o","n">>, fn) \/ Contains(<<"p","e","r"," ","s","e","c">>, Lower(fn))
                    \/ Contains(<<"p","e","r"," ","s","e","c","o","n","d">>, Lower(fn)) THEN
            [pd EXCEPT !.generation = Str(fv), !.money_per_sec = Str(fv)]
        ELSE IF Contains(<<"m","o","n","e","y">>, fn) \/ Contains(<<"d","p","s">>, fn) THEN
            [pd EXCEPT !.dps = Str(fv)]
        ELSE IF Contains(<<"t","i","e","r">>, fn) THEN
            [pd EXCEPT !.tier = Str(fv)]
        ELSE IF Contains(<<"t","r","a","i","t">>, fn) THEN
            [pd EXCEPT !.traits = Str(fv)]
        ELSE IF Contains(<<"p","l","a","y","e","r">>, fn) THEN
            [pd EXCEPT !.players = Str(fv)]
        ELSE IF Contains(<<"j","o","b","i","d">>, Lower(RemoveSpaces(fn))) \/ Contains(<<"j","o","b"," ","i","d">>, Lower(fn)) THEN
            LET m == CodeMatch(fv)
            IN  IF m.ok
                THEN [pd EXCEPT !.jobId = Str(Strip(m.g1))]
                ELSE [pd EXCEPT !.jobId = Str(fv)]
        ELSE IF Contains(<<"j","o","i","n"," ","s","c","r","i","p","t">>, Lower(fn)) \/ Contains(<<"t","e","l","e","p","o","r","t">>, Lower(fn)) THEN
            LET m  == TeleportMatch(fv)
                p1 == [pd EXCEPT !.teleport_script = Str(fv)]
            IN  IF m.ok THEN TeleportFields(p1, m) ELSE p1
        ELSE IF Contains(<<"j","o","i","n">>, fn) /\ Contains(<<"l","i","n","k">>, Lower(fn)) THEN
            LET m == LinkMatch(fv)
            IN  IF m.ok THEN [pd EXCEPT !.join_link = Str(m.g2)]
                ELSE IF StartsWith(fv, <<"h","t","t","p">>) THEN [pd EXCEPT !.join_link = Str(fv)]
                ELSE pd
        ELSE pd

RECURSIVE ScanFields(_, _)
ScanFields(pd, fields) ==
    IF fields = <<>> THEN pd
    ELSE ScanFields(ParseField(pd, Head(fields)), Tail(fields))

\* A validation that asks for the name only.
IsValidNameOnly(pd) == Truthy(pd.name)

\* "if pet_data['name'] and pet_data['jobId']"
IsValid(pd) == Truthy(pd.name) /\ Truthy(pd.jobId)

\* The result of parse_pet_embed: the pet dict, or None.  clock is the
\* reading of datetime.now(timezone.utc).timestamp().
ParsePetEmbed(embed, message, clock) ==
    LET p0 == [InitialPetData EXCEPT
                 !.found_at = IF ~IsNone(message.created_at)
                              THEN message.created_at ELSE None,
                 !.processed_at = Num(clock),
                 !.message_id = Str(DecimalOf(message.id))]
        p1 == IF Truthy(embed.title)
              THEN ("embed_title" :> embed.title) @@ p0 ELSE p0
        p2 == IF Truthy(embed.description)
              THEN ("embed_description" :> embed.description) @@ p1 ELSE p1
        pd == ScanFields(p2, embed.fields)
    IN  IF IsValid(pd) THEN pd ELSE None

(***************************************************************************)
(* json.dump / json.load                                                   *)
(*                                                                         *)
(* A JSON document is the tree of its values: null, true, false, a number  *)
(* literal (the characters json writes for a float), a string literal (the *)
(* characters between its quotes, escaped), an array, an object.           *)
(***************************************************************************)
\* The characters json.dump writes for one character of a str.
EscapeChar(c) ==
    CASE c = "\"" -> <<"\\", "\"">>
      [] c = "\\" -> <<"\\", "\\">>
      [] c = "\n" -> <<"\\", "n">>
      [] c = "\t" -> <<"\\", "t">>
      [] OTHER    -> <<c>>

RECURSIVE Escape(_)
Escape(s) == IF s = <<>> THEN <<>> ELSE EscapeChar(Head(s)) \o Escape(Tail(s))

\* The character json.load reads for the escape \c.
UnescapeChar(c) ==
    CASE c = "n" -> "\n"
      [] c = "t" -> "\t"
      [] OTHER   -> c

RECURSIVE Unescape(_)
Unescape(s) ==
    IF s = <<>> THEN <<>>
    ELSE IF Head(s) = "\\" /\ Len(s) >= 2
         THEN <<UnescapeChar(s[2])>> \o Unescape(Tail(Tail(s)))
         ELSE <<Head(s)>> \o Unescape(Tail(s))

\* float.__repr__ of a timestamp with no fraction: "1700000000.0"
FloatRepr(n) == DecimalOf(n) \o <<".", "0">>

DigitValue(c) == (CHOOSE i \in DOMAIN DigitChars : DigitChars[i] = c) - 1

RECURSIVE ParseDigits(_, _)
ParseDigits(acc, s) ==
    IF s = <<>> \/ ~IsDigit(Head(s)) THEN acc
    ELSE ParseDigits(acc * 10 + DigitValue(Head(s)), Tail(s))

\* float(literal) for the literals FloatRepr writes
ParseFloat(lit) == ParseDigits(0, lit)

RECURSIVE JsonEncode(_)
JsonEncode(v) ==
    CASE v.t = "none" -> [j |-> "null"]
      [] v.t = "bool" -> [j |-> IF v.b THEN "true" ELSE "false"]
      [] v.t = "num"  -> [j |-> "number", lit |-> FloatRepr(v.n)]
      [] v.t = "str"  -> [j |-> "string", lit |-> Escape(v.s)]
      [] v.t = "list" -> [j |-> "array", items |-> [i \in DOMAIN v.xs |-> JsonEncode(v.xs[i])]]
      [] v.t = "dict" -> [j |-> "object", members |-> [k \in DOMAIN v.d |-> JsonEncode(v.d[k])]]

RECURSIVE JsonDecode(_)
JsonDecode(x) ==
    CASE x.j = "null"   -> None
      [] x.j = "true"   -> Bool(TRUE)
      [] x.j = "false"  -> Bool(FALSE)
      [] x.j = "number" -> Num(ParseFloat(x.lit))
      [] x.j = "string" -> Str(Unescape(x.lit))
      [] x.j = "array"  -> List([i \in DOMAIN x.items |-> JsonDecode(x.items[i])])
      [] x.j = "object" -> Dict([k \in DOMAIN x.members |-> JsonDecode(x.members[k])])

\* A dump that leaves out the members whose value is None.
JsonDumpSkipNone(pets) ==
    [j |-> "array",
     items |-> [i \in DOMAIN pets |->
                  [j |-> "object",
                   members |-> [k \in {x \in DOMAIN pets[i] : ~IsNone(pets[i][x])} |->
                                   JsonEncode(pets[i][k])]]]]

\* json.dump(pet_servers, f, indent=2): the document written for a list of pets
JsonDump(pets) ==
    [j |-> "array",
     items |-> [i \in DOMAIN pets |->
                  [j |-> "object",
                   members |-> [k \in DOMAIN pets[i] |-> JsonEncode(pets[i][k])]]]]

\* json.load(f) of such a document: the list of pets
JsonLoad(doc) ==
    [i \in DOMAIN doc.items |->
        [k \in DOMAIN doc.items[i].members |-> JsonDecode(doc.items[i].members[k])]]

(***************************************************************************)
(* Bounds and inputs                                                       *)
(***************************************************************************)
\* The capacity of pet_servers ("if len(pet_servers) > 100"), scaled down.
MaxPets == 2

\* Messages delivered to on_message over a run.
MaxMessages == 2

\* The recency window of recent_pets, in seconds.
RecentWindow == 900

CHANNEL_ID == "1409208367188283556"

OtherChannel == "1"

PERSISTENCE_FILE == "pets_data.json"

MessageIds == {1001}

\* The reading of the clock while the modelled messages arrive.
StartTime == 2000

Field(n, v) == [name |-> Str(n), value |-> Str(v), inline |-> TRUE]

Embed(fields) == [title |-> None, description |-> None, fields |-> fields]

\* Embeds as the announcing bot posts them, and one that is no pet.
EmbedFoxJ1 == Embed(<<Field(<<"N","a","m","e">>, <<"*"," ","F","o","x">>), Field(<<"J","o","b","I","D">>, <<"j","1">>)>>)

EmbedCatJ2 ==
    Embed(<<Field(<<"N","a","m","e">>, <<"C","a","t">>),
            Field(<<"J","o","i","n"," ","S","c","r","i","p","t">>, <<"T","e","l","e","p","o","r","t","T","o","P","l","a","c","e","I","n","s","t","a","n","c","e","(","7",","," ","\"","j","2","\"",")">>)>>)

EmbedFoxJ2 == Embed(<<Field(<<"N","a","m","e">>, <<"F","o","x">>), Field(<<"J","o","b"," ","I","D">>, <<"j","2">>)>>)

EmbedCatJ1 ==
    [title |-> Str(<<"F","o","u","n","d">>), description |-> None,
     fields |-> <<Field(<<"J","o","b"," ","I","D">>, <<"j","1">>), Field(<<"N","a","m","e">>, <<"C","a","t">>), Field(<<"T","i","e","r">>, <<"S">>)>>]

EmbedNoJob == Embed(<<Field(<<"N","a","m","e">>, <<"O","w","l">>)>>)

Embeds == {EmbedFoxJ1, EmbedCatJ2, EmbedFoxJ2, EmbedCatJ1, EmbedNoJob}

PairEmbeds == {EmbedFoxJ1, EmbedCatJ2, EmbedNoJob}

\* A message carries no embed, one, or several.
EmbedLists ==
    {<<>>} \cup {<<e>> : e \in Embeds}
           \cup {<<e1, e2>> : e1 \in PairEmbeds, e2 \in PairEmbeds}

\* The messages of a run with no query traffic.  message.created_at is a
\* datetime or missing; the bot reads messages as they are posted.
Messages(clock) ==
    [channel : {CHANNEL_ID, OtherChannel}, id : MessageIds,
     created_at : {None, Num(clock)}, embeds : EmbedLists]

\* The messages of a run with query traffic: pets announced two at a time.
PetMessages(clock) ==
    [channel : {CHANNEL_ID}, id : MessageIds, created_at : {Num(clock)},
     embeds : {<<EmbedFoxJ1, EmbedCatJ2>>, <<EmbedFoxJ2, EmbedCatJ1>>,
               <<EmbedFoxJ1, EmbedFoxJ2>>}]

(***************************************************************************)
(* State                                                                   *)
(***************************************************************************)
VARIABLES
    token,        \* whether DISCORD_TOKEN is set in the environment
    main_pc,      \* where main() is: "start", "loaded", "flask", "running", "exited"
    pet_servers,  \* the list of pets
    pets_lock,    \* the holder of pets_lock, or "free"
    file,         \* pets_data.json: [k |-> "missing"], [k |-> "partial"]
                  \* (opened for writing and not fully written) or
                  \* [k |-> "doc", doc |-> the JSON document]
    now,          \* the clock
    on_message,   \* the event loop's handler: [pc, message, embeds, pet]
    request,      \* per Flask thread: [pc, route, now, response]
    save_result,  \* history: how the call of save_pets_to_file in add_pet ended
    saved,        \* history: pet_servers as the last successful save wrote it
    received      \* messages delivered so far

vars == <<token, main_pc, pet_servers, pets_lock, file, now, on_message, request,
          save_result, saved, received>>

\* The contexts that take pets_lock: the event loop and the Flask threads.
Bot == "bot"

Threads == {"flask1"}

Routes == {"/recent-pets", "/all-pets", "/stats", "/health"}

Idle == [pc |-> "idle", message |-> None, embeds |-> <<>>, pet |-> None]

NoRequest == [pc |-> "idle", route |-> "", now |-> 0, response |-> None]

Missing == [k |-> "missing"]

Partial == [k |-> "partial"]

Document(doc) == [k |-> "doc", doc |-> doc]

\* The state of a process that has just started (module level, lines 12-21).
Started ==
    /\ main_pc = "start"
    /\ pet_servers = <<>>
    /\ pets_lock = "free"
    /\ on_message = Idle
    /\ request = [t \in Threads |-> NoRequest]
    /\ save_result = "none"

Init ==
    /\ token \in BOOLEAN
    /\ Started
    /\ file = Missing
    /\ now = StartTime
    /\ saved = <<>>
    /\ received = 0

(***************************************************************************)
(* pets_lock                                                               *)
(***************************************************************************)
\* An acquire that does not wait (acquire(blocking=False), result unread).
CanAcquireAlways(holder) == TRUE

\* Lock.acquire returns once no context holds the lock.
CanAcquire(holder) == holder = "free"

Acquire(who) == CanAcquire(pets_lock) /\ pets_lock' = who

\* A with block left without the release.
ReleaseSkipped == pets_lock' = pets_lock

Release == pets_lock' = "free"

(***************************************************************************)
(* main                                                                    *)
(***************************************************************************)
\* load_pets_from_file catching only a missing file: a file that does not
\* parse raises out of it.
LoadPetsFromFileUncaught(f, pets) ==
    CASE f.k = "missing" -> [pets |-> pets, raised |-> FALSE]
      [] f.k = "partial" -> [pets |-> pets, raised |-> TRUE]
      [] f.k = "doc"     -> [pets |-> JsonLoad(f.doc), raised |-> FALSE]

\* load_pets_from_file: the list it leaves in pet_servers, and whether an
\* exception leaves the function.  f is the file, pets the list before.
LoadPetsFromFile(f, pets) ==
    CASE f.k = "missing" -> [pets |-> pets, raised |-> FALSE]
      [] f.k = "partial" -> [pets |-> <<>>, raised |-> FALSE]
      [] f.k = "doc"     -> [pets |-> JsonLoad(f.doc), raised |-> FALSE]

\* main() with the load placed before the token check.
MainLoadFirst ==
    /\ main_pc = "start"
    /\ pet_servers' = LoadPetsFromFile(file, pet_servers).pets
    /\ main_pc' = IF token THEN "loaded" ELSE "exited"
    /\ UNCHANGED <<token, pets_lock, file, now, on_message, request, save_result,
                   saved, received>>

\* main() up to the end of load_pets_from_file.  No other context runs yet:
\* the Flask thread and the client are started after it.
Main ==
    /\ main_pc = "start"
    /\ IF ~token
       THEN /\ main_pc' = "exited"
            /\ UNCHANGED pet_servers
       ELSE LET r == LoadPetsFromFile(file, pet_servers)
            IN  /\ pet_servers' = r.pets
                /\ main_pc' = IF r.raised THEN "exited" ELSE "loaded"
    /\ UNCHANGED <<token, pets_lock, file, now, on_message, request, save_result,
                   saved, received>>

\* flask_thread.start()
StartFlask ==
    /\ main_pc = "loaded"
    /\ main_pc' = "flask"
    /\ UNCHANGED <<token, pet_servers, pets_lock, file, now, on_message, request,
                   save_result, saved, received>>

\* client.run(DISCORD_TOKEN): the event loop starts delivering messages.
ClientRun ==
    /\ main_pc = "flask"
    /\ main_pc' = "running"
    /\ UNCHANGED <<token, pet_servers, pets_lock, file, now, on_message, request,
                   save_result, saved, received>>

\* The process is killed and started again: memory is lost, the file stays,
\* and DISCORD_TOKEN is read from the environment anew.
Restart ==
    /\ main_pc # "start"
    /\ main_pc' = "start"
    /\ pet_servers' = <<>>
    /\ pets_lock' = "free"
    /\ on_message' = Idle
    /\ request' = [t \in Threads |-> NoRequest]
    /\ save_result' = "none"
    /\ token' \in BOOLEAN
    /\ UNCHANGED <<file, now, saved, received>>

(***************************************************************************)
(* Ingestion: PetClient.on_message, is_duplicate_pet, add_pet,             *)
(* save_pets_to_file.  The handler has no await: the event loop runs one   *)
(* handler at a time, to its end.                                          *)
(***************************************************************************)
\* dict.get(key)
Get(d, key) == IF key \in DOMAIN d THEN d[key] ELSE None

\* is_duplicate_pet comparing the name alone.
IsDuplicatePetByName(pets, new_pet) ==
    \E i \in DOMAIN pets : Get(pets[i], "name") = Get(new_pet, "name")

\* is_duplicate_pet returning from inside the loop after the first pet.
IsDuplicatePetFirstOnly(pets, new_pet) ==
    /\ pets # <<>>
    /\ Get(pets[1], "jobId") = Get(new_pet, "jobId")
    /\ Get(pets[1], "name") = Get(new_pet, "name")

\* The scan of is_duplicate_pet over the list.
IsDuplicatePet(pets, new_pet) ==
    \E i \in DOMAIN pets :
        /\ Get(pets[i], "jobId") = Get(new_pet, "jobId")
        /\ Get(pets[i], "name") = Get(new_pet, "name")

\* The append placed after the save: the file is written without the new pet.
SaveDocumentStale(pets) ==
    Document(JsonDump(IF pets = <<>> THEN pets ELSE SubSeq(pets, 1, Len(pets) - 1)))

\* What save_pets_to_file writes when json.dump succeeds.
SaveDocument(pets) == Document(JsonDump(pets))

\* An append that also drops the raw fields of the pets already in the list.
AppendPetTrim(pets, pet) ==
    [i \in DOMAIN pets |-> [pets[i] EXCEPT !.raw_fields = List(<<>>)]] \o <<pet>>

\* pet_servers.append(pet)
AppendPet(pets, pet) == Append(pets, pet)

\* The eviction with its test off by one: "if len(pet_servers) > 101".
EvictOldestLate(pets) == IF Len(pets) > MaxPets + 1 THEN Tail(pets) ELSE pets

\* The eviction with pop() for pop(0): the newest pet goes.
EvictNewest(pets) ==
    IF Len(pets) > MaxPets THEN SubSeq(pets, 1, Len(pets) - 1) ELSE pets

\* "if len(pet_servers) > 100: pet_servers.pop(0)"
EvictOldest(pets) == IF Len(pets) > MaxPets THEN Tail(pets) ELSE pets

\* Whether the print that ends add_pet raises: datetime.fromtimestamp(None).
PrintRaises(pet) == IsNone(pet.found_at)

\* A message arrives: the channel and embeds checks, then the loop starts.
OnMessage(messages) ==
    /\ main_pc = "running"
    /\ on_message.pc = "idle"
    /\ received < MaxMessages
    /\ received' = received + 1
    /\ \E m \in messages :
          on_message' =
              IF m.channel # CHANNEL_ID \/ m.embeds = <<>>
              THEN Idle
              ELSE [pc |-> "loop", message |-> m, embeds |-> m.embeds, pet |-> None]
    /\ UNCHANGED <<token, main_pc, pet_servers, pets_lock, file, now, request,
                   save_result, saved>>

\* "for embed in message.embeds: pet = parse_pet_embed(embed, message)"
NextEmbed ==
    /\ on_message.pc = "loop"
    /\ IF on_message.embeds = <<>>
       THEN on_message' = Idle
       ELSE LET pet == ParsePetEmbed(Head(on_message.embeds), on_message.message, now)
            IN  on_message' =
                    IF IsNone(pet)
                    THEN [on_message EXCEPT !.embeds = Tail(@)]
                    ELSE [on_message EXCEPT !.embeds = Tail(@), !.pet = pet, !.pc = "dup"]
    /\ UNCHANGED <<token, main_pc, pet_servers, pets_lock, file, now, request,
                   save_result, saved, received>>

\* is_duplicate_pet: "with pets_lock:"
IsDuplicateAcquire ==
    /\ on_message.pc = "dup"
    /\ Acquire(Bot)
    /\ on_message' = [on_message EXCEPT !.pc = "dup_locked"]
    /\ UNCHANGED <<token, main_pc, pet_servers, file, now, request, save_result,
                   saved, received>>

\* is_duplicate_pet: the scan, the release, and the branch of on_message.
IsDuplicateScan ==
    /\ on_message.pc = "dup_locked"
    /\ Release
    /\ on_message' =
           IF IsDuplicatePet(pet_servers, on_message.pet)
           THEN [on_message EXCEPT !.pc = "loop", !.pet = None]
           ELSE [on_message EXCEPT !.pc = "add"]
    /\ UNCHANGED <<token, main_pc, pet_servers, file, now, request, save_result,
                   saved, received>>

\* add_pet: "with pets_lock:"
AddPetAcquire ==
    /\ on_message.pc = "add"
    /\ Acquire(Bot)
    /\ on_message' = [on_message EXCEPT !.pc = "add_locked"]
    /\ UNCHANGED <<token, main_pc, pet_servers, file, now, request, save_result,
                   saved, received>>

\* add_pet: pet_servers.append(pet)
AddPetAppend ==
    /\ on_message.pc = "add_locked"
    /\ pet_servers' = AppendPet(pet_servers, on_message.pet)
    /\ on_message' = [on_message EXCEPT !.pc = "add_appended"]
    /\ UNCHANGED <<token, main_pc, pets_lock, file, now, request, save_result,
                   saved, received>>

\* add_pet: the eviction and the end of the with block
AddPetEvict ==
    /\ on_message.pc = "add_appended"
    /\ pet_servers' = EvictOldest(pet_servers)
    /\ Release
    /\ on_message' = [on_message EXCEPT !.pc = "save"]
    /\ UNCHANGED <<token, main_pc, file, now, request, save_result, saved, received>>

\* save_pets_to_file: "with pets_lock:"
SaveAcquire ==
    /\ on_message.pc = "save"
    /\ Acquire(Bot)
    /\ on_message' = [on_message EXCEPT !.pc = "save_locked"]
    /\ UNCHANGED <<token, main_pc, pet_servers, file, now, request, save_result,
                   saved, received>>

\* save_pets_to_file: open(PERSISTENCE_FILE, 'w') truncates the file, or
\* raises and leaves it as it was; the exception is caught and printed.
SaveOpen ==
    /\ on_message.pc = "save_locked"
    /\ \/ /\ file' = Partial
          /\ on_message' = [on_message EXCEPT !.pc = "save_open"]
          /\ UNCHANGED <<pets_lock, save_result>>
       \/ /\ Release
          /\ save_result' = "failed"
          /\ on_message' = [on_message EXCEPT !.pc = "print"]
          /\ UNCHANGED file
    /\ UNCHANGED <<token, main_pc, pet_servers, now, request, saved, received>>

\* save_pets_to_file: json.dump writes the document, or raises part way
\* (the disk is full); the exception is caught and printed.
SaveDump ==
    /\ on_message.pc = "save_open"
    /\ Release
    /\ on_message' = [on_message EXCEPT !.pc = "print"]
    /\ \/ /\ file' = SaveDocument(pet_servers)
          /\ saved' = pet_servers
          /\ save_result' = "ok"
       \/ /\ save_result' = "failed"
          /\ UNCHANGED <<file, saved>>
    /\ UNCHANGED <<token, main_pc, pet_servers, now, request, received>>

\* The print of add_pet with no try around the handler's body: the exception
\* leaves on_message and ends the client.
AddPetPrintUncaught ==
    /\ on_message.pc = "print"
    /\ on_message' = Idle
    /\ main_pc' = IF PrintRaises(on_message.pet) THEN "exited" ELSE main_pc
    /\ save_result' = "none"
    /\ UNCHANGED <<token, pet_servers, pets_lock, file, now, request, saved, received>>

\* add_pet: the print after the save.  When it raises, the except of
\* on_message ends the handler.
AddPetPrint ==
    /\ on_message.pc = "print"
    /\ on_message' =
           IF PrintRaises(on_message.pet)
           THEN Idle
           ELSE [on_message EXCEPT !.pc = "loop", !.pet = None]
    /\ save_result' = "none"
    /\ UNCHANGED <<token, main_pc, pet_servers, pets_lock, file, now, request,
                   saved, received>>

(***************************************************************************)
(* Queries: the Flask routes, each request on a thread of its own          *)
(***************************************************************************)
\* The list comprehension of recent_pets.  "p.get('found_at', 0)" is None
\* for a pet whose found_at is None, and "now - None" raises TypeError.
RECURSIVE RecentFilter(_, _)
RecentFilter(pets, clock) ==
    IF pets = <<>> THEN List(<<>>)
    ELSE LET p    == Head(pets)
             at   == IF "found_at" \in DOMAIN p THEN p["found_at"] ELSE Num(0)
             rest == RecentFilter(Tail(pets), clock)
         IN  IF at.t # "num" \/ rest.t = "error" THEN [t |-> "error"]
             ELSE IF clock - at.n < RecentWindow
                  THEN List(<<Dict(p)>> \o rest.xs)
                  ELSE rest

\* What a route computes from the list.
Respond(route, pets, clock) ==
    CASE route = "/recent-pets" -> RecentFilter(pets, clock)
      [] route = "/all-pets"    -> List([i \in DOMAIN pets |-> Dict(pets[i])])
      [] route = "/stats"       ->
             Dict([total_pets_tracked |-> Num(Len(pets)),
                   monitoring_channel |-> CHANNEL_ID,
                   persistence_file |-> PERSISTENCE_FILE])
      [] route = "/health"      -> Dict([status |-> "ok", bot_ready |-> Bool(TRUE)])

\* A request arrives; recent_pets reads the clock before it takes the lock.
Request(t) ==
    /\ main_pc \in {"flask", "running"}
    /\ request[t].pc = "idle"
    /\ \E route \in Routes :
          request' = [request EXCEPT ![t] =
              [pc |-> IF route = "/health" THEN "locked" ELSE "wait",
               route |-> route, now |-> IF route = "/recent-pets" THEN now ELSE 0,
               response |-> None]]
    /\ UNCHANGED <<token, main_pc, pet_servers, pets_lock, file, now, on_message,
                   save_result, saved, received>>

\* "with pets_lock:" of recent_pets, all_pets, stats
QueryAcquire(t) ==
    /\ request[t].pc = "wait"
    /\ Acquire(t)
    /\ request' = [request EXCEPT ![t].pc = "locked"]
    /\ UNCHANGED <<token, main_pc, pet_servers, file, now, on_message, save_result,
                   saved, received>>

\* The body of the route and the end of its with block (health has none).
QueryRead(t) ==
    /\ request[t].pc = "locked"
    /\ IF request[t].route = "/health" THEN UNCHANGED pets_lock ELSE Release
    /\ request' = [request EXCEPT
           ![t].pc = "done",
           ![t].response = Respond(request[t].route, pet_servers, request[t].now)]
    /\ UNCHANGED <<token, main_pc, pet_servers, file, now, on_message, save_result,
                   saved, received>>

\* The response is sent.
QueryDone(t) ==
    /\ request[t].pc = "done"
    /\ request' = [request EXCEPT ![t] = NoRequest]
    /\ UNCHANGED <<token, main_pc, pet_servers, pets_lock, file, now, on_message,
                   save_result, saved, received>>

(***************************************************************************)
(* Specification                                                           *)
(***************************************************************************)
\* The steps of the event loop's handler.
Ingest ==
    \/ NextEmbed
    \/ IsDuplicateAcquire
    \/ IsDuplicateScan
    \/ AddPetAcquire
    \/ AddPetAppend
    \/ AddPetEvict
    \/ SaveAcquire
    \/ SaveOpen
    \/ SaveDump
    \/ AddPetPrint

\* A run of the process with no query traffic: startup, ingestion of any
\* message, persistence, and restarts at any point.
Next ==
    \/ Main
    \/ StartFlask
    \/ ClientRun
    \/ Restart
    \/ OnMessage(Messages(now))
    \/ Ingest

Spec == Init /\ [][Next]_vars

\* A run of the process under query traffic, from a configured start.
InitQueries == Init /\ token

NextQueries ==
    \/ Main
    \/ StartFlask
    \/ ClientRun
    \/ OnMessage(PetMessages(now))
    \/ Ingest
    \/ \E t \in Threads : Request(t)
    \/ \E t \in Threads : QueryAcquire(t)
    \/ \E t \in Threads : QueryRead(t)
    \/ \E t \in Threads : QueryDone(t)

SpecQueries == InitQueries /\ [][NextQueries]_vars

(***************************************************************************)
(* Claims                                                                  *)
(***************************************************************************)
SameKey(p, q) ==
    Get(p, "name") = Get(q, "name") /\ Get(p, "jobId") = Get(q, "jobId")

\* C1: in every reachable state no two pets of pet_servers share the pair
\* (name, jobId), whatever embeds were ingested and whatever was loaded.
C1_UniqueKeys ==
    \A i, j \in DOMAIN pet_servers :
        i # j => ~SameKey(pet_servers[i], pet_servers[j])

\* A message that carries the same pet twice has been handled to its end,
\* and the list holds that pet once.
C1_Witness ==
    /\ on_message.pc = "loop"
    /\ on_message.embeds = <<>>
    /\ on_message.message.embeds = <<EmbedFoxJ1, EmbedFoxJ1>>
    /\ Cardinality({i \in DOMAIN pet_servers :
                       pet_servers[i].name = Str(<<"F", "o", "x">>)
                       /\ pet_servers[i].jobId = Str(<<"j", "1">>)}) = 1

\* C2, as claimed: the duplicate check and the insertion are one critical
\* section, that is, the handler holds pets_lock from the check it passed until
\* it inserts.
C2_OneCriticalSection ==
    on_message.pc = "add" => pets_lock = Bot

\* C3: outside the lock, pet_servers never holds more than the capacity,
\* also when it was loaded from the file.
C3_Capacity ==
    pets_lock = "free" => Len(pet_servers) <= MaxPets

\* The list is full right after the startup load.
C3_Witness ==
    main_pc = "loaded" /\ Len(pet_servers) = MaxPets /\ pets_lock = "free"

\* C4: add_pet puts the new pet last, and when that makes the list longer
\* than the capacity it removes the pet at index 0 and nothing else, keeping
\* the order of the others.
C4_FifoEviction ==
    [][/\ (on_message.pc = "add_locked" /\ on_message'.pc = "add_appended")
            => pet_servers' = pet_servers \o <<on_message.pet>>
       /\ (on_message.pc = "add_appended" /\ on_message'.pc = "save")
            => /\ Len(pet_servers') <= MaxPets
               /\ pet_servers' =
                     IF Len(pet_servers) = MaxPets + 1
                     THEN [i \in 1..MaxPets |-> pet_servers[i + 1]]
                     ELSE pet_servers]_vars

\* The append has made the list one longer than the capacity.
C4_Witness ==
    on_message.pc = "add_appended" /\ Len(pet_servers) = MaxPets + 1

\* C5: a context is inside one of the with blocks only as the holder of
\* pets_lock, and what a query or a save reads there is never the list between
\* the append and the eviction.
C5_LockDiscipline ==
    /\ on_message.pc \in {"dup_locked", "add_locked", "add_appended",
                          "save_locked", "save_open"} => pets_lock = Bot
    /\ on_message.pc \in {"dup_locked", "add_locked", "save_locked", "save_open"}
           => Len(pet_servers) <= MaxPets
    /\ \A t \in Threads :
          (request[t].pc = "locked" /\ request[t].route # "/health")
              => pets_lock = t /\ Len(pet_servers) <= MaxPets
    /\ file.k = "doc" => Len(file.doc.items) <= MaxPets

\* A query waits for the lock while the list is between append and eviction.
C5_Witness ==
    /\ on_message.pc = "add_appended"
    /\ Len(pet_servers) = MaxPets + 1
    /\ \E t \in Threads : request[t].pc = "wait"

\* C6: the startup load of a file that a save wrote in full leaves in
\* pet_servers exactly the list that save held.
C6_RoundTrip ==
    (main_pc = "loaded" /\ file.k = "doc") => pet_servers = saved

\* A full list, one pet carrying a teleport script with quotes, is loaded.
C6_Witness ==
    /\ main_pc = "loaded"
    /\ file.k = "doc"
    /\ Len(pet_servers) = MaxPets
    /\ \E i \in DOMAIN pet_servers : ~IsNone(pet_servers[i].teleport_script)

\* C7: a save that succeeds leaves in the file the list as it is in memory,
\* in order; the file is written only inside save_pets_to_file, which is
\* entered only from the end of add_pet's insertion.
C7_SaveAfterInsert ==
    [][/\ (on_message'.pc = "print" /\ save_result' = "ok")
            => (file'.k = "doc" /\ JsonLoad(file'.doc) = pet_servers')
       /\ file' # file => on_message.pc \in {"save_locked", "save_open"}
       /\ (on_message'.pc = "save" /\ on_message.pc # "save")
            => on_message.pc = "add_appended"]_vars

\* The save of an insertion into a full list has succeeded.
C7_Witness ==
    /\ on_message.pc = "print"
    /\ save_result = "ok"
    /\ Len(pet_servers) = MaxPets

\* The pets of the list that a restart now would not bring back.
LostOnRestart ==
    {i \in DOMAIN pet_servers :
        \A k \in DOMAIN LoadPetsFromFile(file, <<>>).pets :
            LoadPetsFromFile(file, <<>>).pets[k] # pet_servers[i]}

\* C8, as claimed: after a failed save the new pet is still in the list, and
\* if every other pet had been saved before, a restart now loses at most the
\* one pet whose save failed.
C8_OneInsertionAtRisk ==
    (on_message.pc = "print" /\ save_result = "failed")
        => /\ pet_servers # <<>>
           /\ pet_servers[Len(pet_servers)] = on_message.pet
           /\ (\A i \in 1..(Len(pet_servers) - 1) :
                   \E k \in DOMAIN saved : saved[k] = pet_servers[i])
                 => Cardinality(LostOnRestart) <= 1

\* C9: with the token set main never ends at the load, and a load that finds
\* no file or a file that does not parse leaves pet_servers empty.
C9_LoadFailureDegrades ==
    /\ token => main_pc # "exited"
    /\ (main_pc = "loaded" /\ file.k # "doc") => pet_servers = <<>>

\* The load has met a file that was opened for writing and never completed.
C9_Witness ==
    main_pc = "loaded" /\ file.k = "partial"

(***************************************************************************)
(* The recent query over stores whose pets were found around the edge of   *)
(* the window                                                              *)
(***************************************************************************)
\* How long before the query the pets of the store were parsed.
Ages == {RecentWindow - 1, RecentWindow, RecentWindow + 1}

\* parse_pet_embed's results for messages that arrived that long ago, with
\* and without a creation time.
PastPets ==
    UNION {{ParsePetEmbed(e, [channel |-> CHANNEL_ID, id |-> 1001,
                              created_at |-> c, embeds |-> <<e>>], StartTime - a) :
               e \in {EmbedFoxJ1, EmbedCatJ2}, c \in {None, Num(StartTime - a)}} :
           a \in Ages}

\* The lists ingestion can have built of them: no key twice, in order of
\* arrival.
RecentStores ==
    {<<>>} \cup {<<p>> : p \in PastPets}
    \cup {pq \in PastPets \X PastPets :
             /\ ~SameKey(pq[1], pq[2])
             /\ pq[1].processed_at.n <= pq[2].processed_at.n}

\* The process serving queries, the list saved, no message arriving.
InitRecent ==
    /\ token = TRUE
    /\ main_pc = "running"
    /\ pet_servers \in RecentStores
    /\ pets_lock = "free"
    /\ file = SaveDocument(pet_servers)
    /\ now = StartTime
    /\ on_message = Idle
    /\ request = [t \in Threads |-> NoRequest]
    /\ save_result = "none"
    /\ saved = pet_servers
    /\ received = MaxMessages

NextRecent ==
    \/ \E t \in Threads : Request(t)
    \/ \E t \in Threads : QueryAcquire(t)
    \/ \E t \in Threads : QueryRead(t)
    \/ \E t \in Threads : QueryDone(t)

SpecRecent == InitRecent /\ [][NextRecent]_vars

\* The time of a pet as the claim takes it: found_at, and processed_at when
\* found_at is absent.
TimestampWithFallback(p) ==
    IF "found_at" \in DOMAIN p /\ ~IsNone(p.found_at)
    THEN p.found_at.n
    ELSE p.processed_at.n

RECURSIVE ExpectedRecent(_, _)
ExpectedRecent(pets, clock) ==
    IF pets = <<>> THEN <<>>
    ELSE (IF clock - TimestampWithFallback(Head(pets)) < RecentWindow
          THEN <<Dict(Head(pets))>> ELSE <<>>)
         \o ExpectedRecent(Tail(pets), clock)

\* C10, as claimed: the recent query answers with the pets whose found_at, or
\* whose processed_at when found_at is absent, lies within the window of the
\* time of the query, in the order of the list.
C10_RecentWindowWithFallback ==
    \A t \in Threads :
        (request[t].pc = "done" /\ request[t].route = "/recent-pets")
            => request[t].response = List(ExpectedRecent(pet_servers, request[t].now))

(***************************************************************************)
(* The parser over embeds of up to three fields, in every order            *)
(***************************************************************************)
NameFields ==
    {Field(<<"N","a","m","e">>, <<"*"," ","F","o","x">>),
     Field(<<"N","a","m","e">>, <<"C","a","t">>),
     Field(<<"N","a","m","e">>, <<"F","o","x","-","1">>)}

\* Job id fields: plain, in a code block, and empty.
JobPlain == Field(<<"J","o","b","I","D">>, <<"j","1">>)

JobCode ==
    Field(<<"J","o","b"," ","I","D">>,
          <<BackTick, BackTick, BackTick, "l","u","a","\n","j","3","\n",
            BackTick, BackTick, BackTick>>)

JobEmpty == Field(<<"J","o","b","I","D">>, <<>>)

JobFields == {JobPlain, JobCode, JobEmpty}

\* Script fields: TeleportToPlaceInstance(7, "j2"), (8,'j4',x), and join().
ScriptDouble ==
    Field(<<"J","o","i","n"," ","S","c","r","i","p","t">>,
          <<"T","e","l","e","p","o","r","t","T","o","P","l","a","c","e","I",
            "n","s","t","a","n","c","e","(","7",","," ","\"","j","2","\"",")">>)

ScriptSingle ==
    Field(<<"T","e","l","e","p","o","r","t">>,
          <<"T","e","l","e","p","o","r","t","T","o","P","l","a","c","e","I",
            "n","s","t","a","n","c","e","(","8",",","'","j","4","'",",","x",")">>)

ScriptOther ==
    Field(<<"J","o","i","n"," ","S","c","r","i","p","t">>, <<"j","o","i","n","(",")">>)

ScriptFields == {ScriptDouble, ScriptSingle, ScriptOther}

ParseFields == NameFields \cup JobFields \cup ScriptFields

\* The field lists: one, two or three different fields, in every order.
FieldLists ==
    {<<a>> : a \in ParseFields}
    \cup {ab \in ParseFields \X ParseFields : ab[1] # ab[2]}
    \cup {abc \in ParseFields \X ParseFields \X ParseFields :
             abc[1] # abc[2] /\ abc[1] # abc[3] /\ abc[2] # abc[3]}

ParseMessages(clock) ==
    [channel : {CHANNEL_ID}, id : MessageIds, created_at : {Num(clock)},
     embeds : {<<Embed(fs)>> : fs \in FieldLists}]

\* The bot running with an empty list, one more message to come.
InitParse ==
    /\ token = TRUE
    /\ main_pc = "running"
    /\ pet_servers = <<>>
    /\ pets_lock = "free"
    /\ on_message = Idle
    /\ request = [t \in Threads |-> NoRequest]
    /\ save_result = "none"
    /\ file = Missing
    /\ now = StartTime
    /\ saved = <<>>
    /\ received = MaxMessages - 1

NextParse ==
    \/ OnMessage(ParseMessages(now))
    \/ Ingest

SpecParse == InitParse /\ [][NextParse]_vars

\* s is a str that is not empty
NonEmptyStr(v) == "t" \in DOMAIN v /\ v.t = "str" /\ Len(v.s) > 0

\* The embed of the message in hand that the handler parsed last.
ParsedEmbed ==
    on_message.message.embeds[Len(on_message.message.embeds) - Len(on_message.embeds)]

\* C11: for each embed of the message in hand, parse_pet_embed returns a pet
\* with a non-empty name and a non-empty jobId, or None, and None exactly when
\* the scan of all fields left one of the two empty or unset; every pet of
\* pet_servers, and the pet the handler holds, has both.
C11_ValidatedRecords ==
    /\ \A i \in DOMAIN pet_servers :
          NonEmptyStr(pet_servers[i].name) /\ NonEmptyStr(pet_servers[i].jobId)
    /\ on_message.pc # "idle" =>
          /\ ~IsNone(on_message.pet) =>
                NonEmptyStr(on_message.pet.name) /\ NonEmptyStr(on_message.pet.jobId)
          /\ \A i \in DOMAIN on_message.message.embeds :
                LET e  == on_message.message.embeds[i]
                    r  == ParsePetEmbed(e, on_message.message, now)
                    pd == ScanFields(InitialPetData, e.fields)
                IN  IF NonEmptyStr(pd.name) /\ NonEmptyStr(pd.jobId)
                    THEN ~IsNone(r) /\ r.name = pd.name /\ r.jobId = pd.jobId
                         /\ r.raw_fields.xs = [k \in DOMAIN e.fields |-> RawField(e.fields[k])]
                    ELSE IsNone(r)

\* An embed whose job id field is empty has been parsed and dropped, nothing
\* was inserted.
C11_Witness ==
    /\ on_message.pc = "loop"
    /\ on_message.embeds = <<>>
    /\ IsNone(on_message.pet)
    /\ pet_servers = <<>>
    /\ \E k \in DOMAIN ParsedEmbed.fields :
          ParsedEmbed.fields[k] = JobEmpty
    /\ \E k \in DOMAIN ParsedEmbed.fields : ParsedEmbed.fields[k] \in NameFields

(***************************************************************************)
(* Ingestion in one run of the process: messages of two embeds, with and   *)
(* without a creation time                                                 *)
(***************************************************************************)
\* The cat arrives only behind the fox of job j1.
IngestMessages(clock) ==
    [channel : {CHANNEL_ID}, id : MessageIds, created_at : {None, Num(clock)},
     embeds : {<<EmbedFoxJ1, EmbedCatJ2>>, <<EmbedFoxJ2, EmbedFoxJ1>>}]

NextIngest ==
    \/ Main
    \/ StartFlask
    \/ ClientRun
    \/ OnMessage(IngestMessages(now))
    \/ Ingest

SpecIngest == InitQueries /\ [][NextIngest]_vars

\* C12: an exception raised while a message is handled ends the handler for
\* that message and nothing else: the client keeps running, the lock is free,
\* the list is as it was, and the handler is ready for the next message.
C12_ExceptionContained ==
    [][/\ (on_message.pc = "print" /\ PrintRaises(on_message.pet))
            => /\ on_message' = Idle
               /\ main_pc' = "running"
               /\ pets_lock' = "free"
               /\ pet_servers' = pet_servers
       /\ main_pc = "running" => main_pc' = "running"]_vars

\* A pet is being inserted from the message after the one whose handling
\* ended in the exception (the pet without found_at came from that one).
C12_Witness ==
    /\ on_message.pc = "add_appended"
    /\ received = 2
    /\ ~IsNone(on_message.pet.found_at)
    /\ \E i \in DOMAIN pet_servers : IsNone(pet_servers[i].found_at)

\* A run under query traffic in which the process also ends and starts again.
NextService ==
    \/ NextQueries
    \/ Restart

SpecService == InitQueries /\ [][NextService]_vars

\* C13: every step leaves pet_servers as it is, or appends the pet the
\* handler parsed from the embed in hand, whose key no stored pet has, or
\* removes the pet at index 0 of a list over capacity, or is the end of the
\* process, or is the startup load that replaces the list by the snapshot.
\* The pets that stay keep all their fields.
C13_Lifecycle ==
    [][\/ pet_servers' = pet_servers
       \/ /\ on_message.pc = "add_locked"
          /\ ~IsNone(on_message.pet)
          /\ on_message.pet = ParsePetEmbed(ParsedEmbed, on_message.message, now)
          /\ \A i \in DOMAIN pet_servers : ~SameKey(pet_servers[i], on_message.pet)
          /\ pet_servers' = pet_servers \o <<on_message.pet>>
       \/ /\ on_message.pc = "add_appended"
          /\ Len(pet_servers) > MaxPets
          /\ pet_servers' = Tail(pet_servers)
       \/ /\ main_pc' = "start"
          /\ pet_servers' = <<>>
       \/ /\ main_pc = "start"
          /\ pet_servers' = IF file.k = "doc" THEN saved ELSE <<>>]_vars

\* After an insertion with eviction, the pet now at index 0 is the pet the
\* last complete save wrote at its end, field for field.
C13_Witness ==
    /\ on_message.pc = "save"
    /\ received = MaxMessages
    /\ Len(pet_servers) = MaxPets
    /\ Len(saved) = MaxPets
    /\ pet_servers[MaxPets] = on_message.pet
    /\ pet_servers[1] = saved[MaxPets]
    /\ pet_servers # saved

\* What the job id fields and the script fields of the parser's inputs say.
ExplicitJobId(f) ==
    CASE f = JobPlain -> <<"j","1">>
      [] f = JobCode  -> <<"j","3">>
      [] f = JobEmpty -> <<>>

ScriptPlace(f) == IF f = ScriptDouble THEN <<"7">> ELSE <<"8">>

ScriptJob(f) == IF f = ScriptDouble THEN <<"j","2">> ELSE <<"j","4">>

\* The positions of the job id fields, and of the script fields that match
\* the pattern, in the embed parsed last.
JobAt == {i \in DOMAIN ParsedEmbed.fields : ParsedEmbed.fields[i] \in JobFields}

ScriptAt ==
    {i \in DOMAIN ParsedEmbed.fields :
        ParsedEmbed.fields[i] \in {ScriptDouble, ScriptSingle}}

\* The jobId by precedence: the last job id field when it has a value; a
\* script counts only where no job id has been captured before it.
ExpectedJobId ==
    IF JobAt # {}
    THEN LET v     == ExplicitJobId(ParsedEmbed.fields[Max(JobAt)])
             later == {i \in ScriptAt : i > Max(JobAt)}
         IN  IF v # <<>> THEN v
             ELSE IF later # {} THEN ScriptJob(ParsedEmbed.fields[Min(later)])
             ELSE <<>>
    ELSE ScriptJob(ParsedEmbed.fields[Min(ScriptAt)])

\* C14: in the pet parsed from any order of fields, placeId is the first
\* argument of the (last) matching script, unset without one; jobId is the
\* value of the job id field when there is one with a value, whatever the
\* order, and the second argument of the script only where no job id was
\* captured before the script.
C14_JobPlacePrecedence ==
    on_message.pc = "dup" =>
        /\ on_message.pet.jobId = Str(ExpectedJobId)
        /\ on_message.pet.placeId =
              IF ScriptAt = {} THEN None
              ELSE Str(ScriptPlace(ParsedEmbed.fields[Max(ScriptAt)]))

\* A pet parsed from a plain job id field followed by a matching script:
\* the place comes from the script, the job id does not.
C14_Witness ==
    /\ on_message.pc = "dup"
    /\ \E i, j \in DOMAIN ParsedEmbed.fields :
          /\ i < j
          /\ ParsedEmbed.fields[i] = JobPlain
          /\ ParsedEmbed.fields[j] = ScriptDouble
    /\ on_message.pet.placeId = Str(<<"7">>)
    /\ on_message.pet.jobId = Str(<<"j","1">>)

\* The positions of the name fields in the embed parsed last.
NameAt == {i \in DOMAIN ParsedEmbed.fields : ParsedEmbed.fields[i] \in NameFields}

\* The value of its one name field, stripped.
NameValue == Strip(ParsedEmbed.fields[Min(NameAt)].value.s)

\* Where the run of symbols that v begins with ends, 0 if v begins with a
\* letter, a digit or a space.
LeadingSymbols(v) == RunUntil(v, 1, WordSet \cup SpaceSet)

\* C15, as claimed: a name value that begins with a run of symbols followed
\* by text gives that run as emoji and the text as name; any other value,
\* also one with a symbol further on, is the name as a whole and sets no emoji.
C15_NameExtraction ==
    (on_message.pc = "dup" /\ Cardinality(NameAt) = 1) =>
        LET v == NameValue
            k == LeadingSymbols(v)
        IN  IF k > 0 /\ Strip(SubSeq(v, k + 1, Len(v))) # <<>>
            THEN /\ on_message.pet.emoji = Str(SubSeq(v, 1, k))
                 /\ on_message.pet.name = Str(Strip(SubSeq(v, k + 1, Len(v))))
            ELSE /\ on_message.pet.emoji = None
                 /\ on_message.pet.name = Str(v)

\* C16, as claimed: when the handler is done with a message, every embed of
\* it that parses to a pet has that pet's key in pet_servers, whatever
\* happened with the other embeds of the message.
C16_EachEmbedOnItsOwn ==
    [][(on_message.pc # "idle" /\ on_message'.pc = "idle")
          => \A i \in DOMAIN on_message.message.embeds :
                LET r == ParsePetEmbed(on_message.message.embeds[i],
                                       on_message.message, now)
                IN  ~IsNone(r) =>
                       \E k \in DOMAIN pet_servers' : SameKey(pet_servers'[k], r)]_vars

\* The stored pets that have the name and the jobId of the handler's pet.
StoredTwins ==
    {i \in DOMAIN pet_servers :
        /\ pet_servers[i].name = on_message.pet.name
        /\ pet_servers[i].jobId = on_message.pet.jobId}

\* C17: the duplicate check sends the pet to add_pet exactly when no pet now
\* in pet_servers has both its name and its jobId, and drops it exactly when
\* one has; what the list held before an eviction plays no part.
C17_MembershipOnly ==
    [][on_message.pc = "dup_locked"
          => /\ on_message'.pc = "add" <=> StoredTwins = {}
             /\ on_message'.pc = "loop" <=> StoredTwins # {}]_vars

\* The fox of job j1 is appended again: the cat at index 0 arrived behind
\* that fox, which has been evicted since.
C17_Witness ==
    /\ on_message.pc = "add_appended"
    /\ Len(pet_servers) = MaxPets + 1
    /\ pet_servers[1].name = Str(<<"C","a","t">>)
    /\ pet_servers[Len(pet_servers)] = on_message.pet
    /\ on_message.pet.name = Str(<<"F","o","x">>)
    /\ on_message.pet.jobId = Str(<<"j","1">>)
    /\ \A i \in 1..MaxPets : ~SameKey(pet_servers[i], on_message.pet)

\* C18: a process started without the token does nothing: main ends before
\* the load, pet_servers stays empty, no route is served, no message is
\* handled, and the file stays as it is.
C18_MissingToken ==
    [][(~token /\ ~token')
          => /\ main_pc' \in {"start", "exited"}
             /\ pet_servers = <<>> /\ pet_servers' = <<>>
             /\ file' = file
             /\ on_message' = Idle
             /\ request' = [t \in Threads |-> NoRequest]
             /\ received' = received]_vars

\* main has ended for want of the token while the file holds a snapshot.
C18_Witness ==
    /\ ~token
    /\ main_pc = "exited"
    /\ file.k = "doc"
    /\ saved # <<>>
    /\ pet_servers = <<>>

(***************************************************************************)
(* Fair scheduling: the event loop and the Flask threads keep running, and *)
(* a context that asks for the lock again and again gets it                *)
(***************************************************************************)
\* The steps of the handler between the calls that take the lock, and those
\* calls.  The position of the handler enables at most one of them.
HandlerStep ==
    \/ IsDuplicateScan
    \/ AddPetAppend
    \/ AddPetEvict
    \/ SaveOpen
    \/ SaveDump

HandlerAcquire ==
    \/ IsDuplicateAcquire
    \/ AddPetAcquire
    \/ SaveAcquire

Fairness ==
    /\ WF_vars(HandlerStep)
    /\ SF_vars(HandlerAcquire)
    /\ \A t \in Threads :
          SF_vars(QueryAcquire(t)) /\ WF_vars(QueryRead(t) \/ QueryDone(t))

\* The messages of the fair runs: a new pet with a known one, or two new.
FairMessages(clock) ==
    [channel : {CHANNEL_ID}, id : MessageIds, created_at : {Num(clock)},
     embeds : {<<EmbedFoxJ1, EmbedCatJ2>>, <<EmbedFoxJ1, EmbedFoxJ2>>}]

NextFair ==
    \/ Main
    \/ StartFlask
    \/ ClientRun
    \/ OnMessage(FairMessages(now))
    \/ Ingest
    \/ \E t \in Threads : Request(t)
    \/ \E t \in Threads : QueryAcquire(t)
    \/ \E t \in Threads : QueryRead(t)
    \/ \E t \in Threads : QueryDone(t)

SpecFair == InitQueries /\ [][NextFair]_vars /\ Fairness

\* The positions at which a context is inside a with block.
BotLocked ==
    on_message.pc \in {"dup_locked", "add_locked", "add_appended",
                       "save_locked", "save_open"}

\* No context asks for the lock it holds, and whoever holds it is inside a
\* with block, which it leaves by a step of its own.
LockSafe ==
    /\ on_message.pc \in {"dup", "add", "save"} => pets_lock # Bot
    /\ pets_lock = Bot <=> BotLocked
    /\ \A t \in Threads :
          /\ request[t].pc = "wait" => pets_lock # t
          /\ pets_lock = t <=> (request[t].pc = "locked" /\ request[t].route # "/health")

\* C19: pets_lock is never asked for by its holder and is released on every
\* path, the failed save included; under fair scheduling every query that
\* waits for the lock is answered and every insertion that has passed the
\* duplicate check runs to the end of add_pet's save.
C19_LockProgress ==
    /\ []LockSafe
    /\ \A t \in Threads : (request[t].pc = "wait") ~> (request[t].pc = "done")
    /\ (on_message.pc = "add") ~> (on_message.pc = "print")
    /\ (on_message.pc = "dup") ~> (on_message.pc \in {"loop", "add"})

\* A query waits for the lock while save_pets_to_file holds it with the
\* file open.
C19_Witness ==
    /\ on_message.pc = "save_open"
    /\ pets_lock = Bot
    /\ \E t \in Threads : request[t].pc = "wait"

====
